---- MODULE Spec2Model ----
(***************************************************************************)
(* Model of src/main.py: the in-memory chat relay.                         *)
(*                                                                         *)
(* POST /chat runs process_chat on a single-slot worker thread while the   *)
(* handler thread waits on the future with a 25 s timeout; DELETE removes  *)
(* a conversation and its title; the two GET handlers read the store.      *)
(* FastAPI runs each synchronous handler on                                *)
(* its own thread, so handlers interleave at every access to the two       *)
(* process-wide dictionaries.                                              *)
(*                                                                         *)
(* Python lists are objects: `history` in process_chat is a reference to   *)
(* the list stored in `conversations`, and stays valid after the key is    *)
(* deleted.  `lists` is the heap of list objects, `conversations` maps a   *)
(* key to the index of its list (0 = key absent).                          *)
(*                                                                         *)
(* Optional values (None / missing dictionary entry) are sequences of      *)
(* length 0, present values sequences of length 1.                         *)
(***************************************************************************)
EXTENDS Integers, Sequences, FiniteSets, TLC

----------------------------------------------------------------------------
(* Program constants, src/main.py lines 16-29 *)
HTTP_STATUS_NOT_FOUND == 404
HTTP_STATUS_INTERNAL_ERROR == 500
MAX_CHAT_HISTORY == 20
MAX_TOTAL_CONVERSATION == 100
MODEL_TOP_TIER_THRESHOLD == 15
MODEL_MEDIUM_TIER_THRESHOLD == 8
TOKEN_THRESHOLD_PRO == 3000
WEIGHT_SMALL == 2
WEIGHT_MEDIUM == 3
WEIGHT_HARD == 5

(* Bounds of the model: chat requests, DELETE requests, the DELETE requests
   that run next to two chat requests, and GET requests *)
MaxReqs == 2
MaxDeletes == 2
MaxRaceDeletes == 1
MaxGets == 1

Reqs == 1..MaxReqs
Dels == 1..MaxDeletes
RaceDels == 1..MaxRaceDeletes
Gets == 1..MaxGets

----------------------------------------------------------------------------
(* Inputs *)

K1 == <<"u1", "c1">>
K2 == <<"u2", "c1">>
Keys == {K1, K2}
Users == { k[1] : k \in Keys }

Roles == {"user", "assistant"}

\* A message text is a sequence of tokens; a keyword or phrase of the
\* routing patterns is one token, "?" is the question mark character.
Contents == { <<"jelaskan", "teorema", "?">> }

\* The messages of the routing scenarios and messages with scores at and next
\* to the two thresholds.
BigOMessage ==
    <<"Explain", "big-O", "complexity", "of", "dynamic programming", "?">>
HiMessage == <<"hi">>
WideContents ==
    Contents \cup
    { BigOMessage, HiMessage,
      <<"cara", "apa itu">>,                       \* 7
      <<"teorema", "?">>,                          \* 8
      <<"np sulit", "?">>,                         \* 11
      <<"teorema", "cara", "apa itu", "?">>,       \* 14
      <<"teorema", "algoritma", "?", "?">>,        \* 15
      <<"tantangan", "Tantangan">> }               \* 17

\* Raw text returned by the title call: a sequence of lines, each a sequence
\* of whitespace-separated tokens.
RawTitles ==
    { << << >>, <<"1.", "How", "to", "prove", "a", "theorem", "fast">>,
         <<"(a", "short", "title)">> >> }
WideRawTitles ==
    RawTitles \cup
    { << <<"-", "Trip", "to", "Bali">>, <<"(a", "short", "title)">> >>,
      << << >>, <<"*", "Trip", "to", "Bali">> >>,
      << << >> >> }

Replies == { "reply" }

\* What count_tokens returns: the collaborator is free in the type of its
\* result.  An integer, an object that carries the count in total_tokens (the
\* CountTokensResponse of the client library), or None.
IntCount(n) == [type |-> "int", total |-> n]
ResponseCount(n) == [type |-> "CountTokensResponse", total |-> n]
NoneCount == [type |-> "NoneType", total |-> 0]
TokenCounts == { IntCount(TOKEN_THRESHOLD_PRO + 1),
                 ResponseCount(TOKEN_THRESHOLD_PRO + 1), NoneCount }
WideTokenCounts ==
    TokenCounts \cup { IntCount(0), IntCount(TOKEN_THRESHOLD_PRO) }

\* Exceptions a collaborator call can raise: "TimeoutError" is an exception
\* of the builtin class TimeoutError, "Exception" any other.
Failures == { "Exception", "TimeoutError" }

None == << >>
Some(v) == << v >>

\* Grounding metadata of a generation result: absent, or a record with the
\* supports flag (non-empty grounding_supports) and the chunks, each chunk
\* an optional web uri.
GroundingInputs ==
    { Some([supports |-> TRUE, chunks |-> << Some("a"), None, Some("b") >>]) }
WideGroundingInputs ==
    GroundingInputs \cup
    { None,
      Some([supports |-> FALSE, chunks |-> << Some("a") >>]),
      Some([supports |-> TRUE, chunks |-> << >>]),
      Some([supports |-> TRUE, chunks |-> << None, None >>]),
      Some([supports |-> TRUE, chunks |-> << Some("a"), Some("a") >>]),
      Some([supports |-> TRUE, chunks |-> << None, Some("b"), Some("a") >>]) }

----------------------------------------------------------------------------
(* Message and the list heap *)

Message(role, content) == [role |-> role, content |-> content]

ListAppendFront(h, m) == <<m>> \o h
ListAppend(h, m) == Append(h, m)

\* history[-n:]
FirstN(h, n) == IF Len(h) <= n THEN h ELSE SubSeq(h, 1, n)
LastN(h, n) == IF Len(h) <= n THEN h ELSE SubSeq(h, Len(h) - n + 1, Len(h))

\* A conversation that MAX_TOTAL_CONVERSATION/2 - 1 successful sequential
\* requests leave behind: user and assistant messages in alternation.
PreloadLen == MAX_TOTAL_CONVERSATION - 2
PreloadOf(n) == [i \in 1..n |->
                   IF i % 2 = 1 THEN Message("user", <<"hi", "?">>)
                                ELSE Message("assistant", "reply")]
Preload == PreloadOf(PreloadLen)
\* History lengths around the context window and the conversation limit.
WideLens == { 0, MAX_CHAT_HISTORY - 2, MAX_CHAT_HISTORY,
              MAX_TOTAL_CONVERSATION - 2, MAX_TOTAL_CONVERSATION }
PreloadTitle == <<"Trip", "to", "Bali">>

----------------------------------------------------------------------------
(* select_model, lines 74-98 *)

HARD_KEYWORDS == { "derivative", "integral", "big-o", "bigo", "complexity",
                   "dynamic programming", "regex", "sql", "stack trace",
                   "panic", "traceback", "recursion", "algorithm", "theorem",
                   "bukti", "turunan", "induksi", "np-sulit", "np sulit",
                   "npsulit", "kompleksitas", "pemrograman dinamis",
                   "jejak tumpukan", "jejak kesalahan", "jejak error", "jejak",
                   "algoritma", "teorema", "persamaan", "matematika", "logika",
                   "berpikir keras", "pikir keras", "buktikan", "soal sulit",
                   "tantangan", "uji", "uji coba", "uji hipotesis" }
MEDIUM_KEYWORDS == { "apa itu", "jelaskan", "analisa", "penjelasan", "mengapa",
                     "kenapa", "sulit", "tantangan", "perbaiki", "kesalahan",
                     "masalah", "solusi", "langkah", "cara", "bagaimana",
                     "penyebab", "penyelesaian" }
\* The patterns search substrings: these hard phrases contain a medium
\* keyword, which MEDIUM_PATTERN finds in them.
MEDIUM_IN_HARD == { "np-sulit", "np sulit", "npsulit", "jejak kesalahan",
                    "soal sulit" }

\* re.IGNORECASE, on the tokens of the inputs that have capitals.
Lower(t) ==
    CASE t = "big-O" -> "big-o"
      [] t = "Explain" -> "explain"
      [] t = "Tantangan" -> "tantangan"
      [] OTHER -> t

RECURSIVE CountIn(_, _)
CountIn(content, S) ==
    IF content = << >> THEN 0
    ELSE (IF Lower(Head(content)) \in S THEN 1 ELSE 0)
         + CountIn(Tail(content), S)

Score(content) ==
    1 + WEIGHT_HARD * CountIn(content, HARD_KEYWORDS)
      + WEIGHT_MEDIUM * CountIn(content, MEDIUM_KEYWORDS \cup MEDIUM_IN_HARD)
      + WEIGHT_SMALL * CountIn(content, {"?"})

\* Line 93: `estimatedToken > TOKEN_THRESHOLD_PRO` is evaluated only when the
\* score test before `and` is true, and raises TypeError unless
\* estimatedToken is a number.
TierTestRaises(score, estimatedToken) ==
    score >= MODEL_TOP_TIER_THRESHOLD /\ estimatedToken.type # "int"

Tier(score, estimatedToken) ==
    IF /\ score >= MODEL_TOP_TIER_THRESHOLD
       /\ estimatedToken.total > TOKEN_THRESHOLD_PRO
    THEN "gemini-2.5-pro"
    ELSE IF score >= MODEL_MEDIUM_TIER_THRESHOLD
    THEN "gemini-2.5-flash"
    ELSE "gemini-2.5-flash-lite"

----------------------------------------------------------------------------
(* add_citations, lines 105-128 *)

\* enumerate(chunks) replaced by a count of the chunks kept.
CitationLinesRenumbered(chunks, i) ==
    LET kept == SelectSeq(chunks, LAMBDA c : c # None)
    IN  [j \in 1..Len(kept) |-> [idx |-> j, url |-> kept[j][1]]]

RECURSIVE CitationLines(_, _)
CitationLines(chunks, i) ==
    IF i > Len(chunks) THEN << >>
    ELSE (IF chunks[i] # None THEN << [idx |-> i, url |-> chunks[i][1]] >>
                              ELSE << >>)
         \o CitationLines(chunks, i + 1)

\* The bibliography text as its lines; the empty text is the empty sequence.
add_citations(meta) ==
    IF meta = None THEN << >>
    ELSE IF ~meta[1].supports \/ meta[1].chunks = << >> THEN << >>
    ELSE IF CitationLines(meta[1].chunks, 1) = << >> THEN << >>
    ELSE << [idx |-> 0, url |-> "Referensi:"] >>
         \o CitationLines(meta[1].chunks, 1)

----------------------------------------------------------------------------
(* Title sanitizing, lines 152-158 *)

\* Tokens made only of the characters lstrip('-*0123456789. ') removes.
StripTokens == { "-", "*", "1." }

RECURSIVE LStrip(_)
LStrip(line) ==
    IF line = << >> THEN << >>
    ELSE IF Head(line) \in StripTokens THEN LStrip(Tail(line))
    ELSE line

\* text.strip() before the split into lines: leading blank lines go.
RECURSIVE DropBlank(_)
DropBlank(raw) ==
    IF raw = << >> THEN << >>
    ELSE IF Head(raw) = << >> THEN DropBlank(Tail(raw))
    ELSE raw

SanitizeTitle(raw) ==
    LET raw_title == DropBlank(raw)
        first_line == IF raw_title = << >> THEN << >> ELSE raw_title[1]
        words == LStrip(first_line)
    IN  SubSeq(words, 1, IF Len(words) < 5 THEN Len(words) ELSE 5)

----------------------------------------------------------------------------
(* Responses *)

TextBody(t) == [kind |-> "text", text |-> t]

LimitResponse(title) ==
    [status |-> 200,
     response |-> TextBody("Conversation limit is ended. Please start a new chat."),
     title |-> title, model |-> "None"]

TimeoutResponse ==
    [status |-> 200,
     response |-> TextBody("Query failed: process exceeded 25 seconds."),
     title |-> None, model |-> "None"]

SuccessResponse(reply, title, model, citation) ==
    [status |-> 200,
     response |-> [kind |-> "message", role |-> "assistant", content |-> reply],
     title |-> title, model |-> model, citation |-> citation]

ErrorResponse(e) == [status |-> HTTP_STATUS_INTERNAL_ERROR, detail |-> e]

NoResponse == [status |-> 0]

\* An exception: the call that raised it and its class.
Raised(at, exc) == [at |-> at, exc |-> exc]
NoError == Raised("", "")

----------------------------------------------------------------------------
VARIABLES
    conversations,  \* key -> index into lists, 0 when the key is absent
    lists,          \* heap of list objects
    chat_titles,    \* key -> optional title
    hstate,         \* chat_endpoint thread: idle, waiting, timedout, returned
    response,       \* HTTP response of each chat request
    pc,             \* position of process_chat on the worker thread
    req,            \* the ChatRequest of each request
    hist,           \* local `history`: index of the list object
    prompt,         \* local `limited_history`
    tokprompt,      \* messages read by select_model for token counting
    model_name,     \* local `model_name`
    assistant_reply,\* local `assistant_reply`, optional
    result,         \* return value of process_chat
    error,          \* exception raised by process_chat
    dpc,            \* position of each delete_chat handler
    dkey,           \* key of each delete_chat handler
    dresp,          \* HTTP status of each delete_chat handler
    origin,         \* history: per list, who added the messages that chat
                    \* requests added (request, "in" or "reply"), in list order
    calls,          \* history: collaborator calls issued by each request
    toAt,           \* history: where the worker was when the timeout fired,
                    \* in the generation call ("gen_call") or "elsewhere"
    sawTitle,       \* history: a title was stored when the request arrived
    epochAt,        \* history: deletions of the key when the request arrived
    doneBefore,     \* history: requests to the key that had returned by then
    dels,           \* history: removals and returns of delete_chat per key
    titleWrites,    \* history: title writes per key since its creation
    titleCalls,     \* history: title calls issued per key since its creation
    titleWriter,    \* history: the request that wrote the title last
    delAt,          \* history: removals of the key when the delete returned
    estimate,       \* history: the token count that the test of line 93 read
    grounding,      \* the generation result's grounding metadata
    gpc,            \* position of each GET handler
    gkind,          \* "ids" (get_chat_ids) or "history" (get_chat_history)
    gkey,           \* get_chat_history: key; get_chat_ids: user_id and the
                    \* chat_id of the key in hand
    gpos,           \* get_chat_ids: place of the iterator; get_chat_history:
                    \* local `history`, index of the list object
    gused,          \* get_chat_ids: size of the dictionary at the start
    glen,           \* get_chat_ids: keys the iterator has yet to give out
    gout,           \* chat_list or messages built so far
    gresp,          \* response of each GET handler
    gepoch,         \* history: dels of the key when the GET started
    gdone           \* history: chat requests returned when the GET started

store == <<conversations, lists, chat_titles, origin>>
handler == <<hstate, response>>
worker == <<pc, req, hist, prompt, tokprompt, model_name, assistant_reply,
           result, error>>
deleter == <<dpc, dkey, dresp>>
ghost == <<calls, toAt, sawTitle, epochAt, doneBefore, dels, titleWrites,
          titleCalls, titleWriter, delAt, estimate, grounding>>
getter == <<gpc, gkind, gkey, gpos, gused, glen, gout, gresp, gepoch, gdone>>
vars == <<store, handler, worker, deleter, ghost, getter>>

NoReq == [key |-> K1, role |-> "", content |-> << >>]

\* conversations.get(key, [])
Stored(k) == IF conversations[k] = 0 THEN << >> ELSE lists[conversations[k]]
StoredOrigin(k) == IF conversations[k] = 0 THEN << >> ELSE origin[conversations[k]]

\* The store after n/2 chat requests to K1, handled one after the other and
\* all successful; K2 has not been seen yet.
StoreWith(n) ==
    /\ conversations = [k \in Keys |-> IF k = K1 /\ n > 0 THEN 1 ELSE 0]
    /\ lists = IF n > 0 THEN << PreloadOf(n) >> ELSE << >>
    /\ origin = IF n > 0 THEN << << >> >> ELSE << >>
    /\ chat_titles =
          [k \in Keys |-> IF k = K1 /\ n > 0 THEN Some(PreloadTitle) ELSE None]
    /\ titleWrites = [k \in Keys |-> IF k = K1 /\ n > 0 THEN 1 ELSE 0]
    /\ titleCalls = [k \in Keys |-> IF k = K1 /\ n > 0 THEN 1 ELSE 0]
    /\ titleWriter = [k \in Keys |-> 0]

PreloadedStore == StoreWith(PreloadLen)

\* No request has arrived yet.
Idle ==
    /\ hstate = [r \in Reqs |-> "idle"]
    /\ response = [r \in Reqs |-> NoResponse]
    /\ pc = [r \in Reqs |-> "idle"]
    /\ req = [r \in Reqs |-> NoReq]
    /\ hist = [r \in Reqs |-> 0]
    /\ prompt = [r \in Reqs |-> << >>]
    /\ tokprompt = [r \in Reqs |-> << >>]
    /\ model_name = [r \in Reqs |-> "None"]
    /\ assistant_reply = [r \in Reqs |-> None]
    /\ result = [r \in Reqs |-> NoResponse]
    /\ error = [r \in Reqs |-> NoError]
    /\ dpc = [d \in Dels |-> "idle"]
    /\ dkey = [d \in Dels |-> K1]
    /\ dresp = [d \in Dels |-> 0]
    /\ calls = [r \in Reqs |-> {}]
    /\ toAt = [r \in Reqs |-> ""]
    /\ sawTitle = [r \in Reqs |-> FALSE]
    /\ epochAt = [r \in Reqs |-> 0]
    /\ doneBefore = [r \in Reqs |-> {}]
    /\ dels = [k \in Keys |-> 0]
    /\ delAt = [d \in Dels |-> 0]
    /\ estimate = [r \in Reqs |-> None]
    /\ grounding = [r \in Reqs |-> None]
    /\ gpc = [g \in Gets |-> "idle"]
    /\ gkind = [g \in Gets |-> ""]
    /\ gkey = [g \in Gets |-> K1]
    /\ gpos = [g \in Gets |-> 0]
    /\ gused = [g \in Gets |-> 0]
    /\ glen = [g \in Gets |-> 0]
    /\ gout = [g \in Gets |-> << >>]
    /\ gresp = [g \in Gets |-> NoResponse]
    /\ gepoch = [g \in Gets |-> 0]
    /\ gdone = [g \in Gets |-> {}]

Init == PreloadedStore /\ Idle

----------------------------------------------------------------------------
(* POST /chat: chat_endpoint, lines 130-208 *)

\* Line 145.
TitleNeededNoTitleTest(k, h, role) ==
    Len(lists[h]) = 0 /\ role = "user"
TitleNeededNoLenTest(k, h, role) ==
    chat_titles[k] = None /\ role = "user"
TitleNeeded(k, h, role) ==
    chat_titles[k] = None /\ Len(lists[h]) = 0 /\ role = "user"

\* Line 137.
LimitReachedStrict(h) == Len(lists[h]) > MAX_TOTAL_CONVERSATION
LimitReached(h) == Len(lists[h]) >= MAX_TOTAL_CONVERSATION

\* The positions at which process_chat waits for a collaborator.
Blocking == {"title_call", "count_call", "gen_call"}
Finished == {"done", "failed"}

\* Lines 196-197: the request arrives and the handler submits process_chat
\* to its own single-worker executor.  Requests arrive in the order of their
\* numbers.
Request(r, k, role, content) ==
    /\ hstate[r] = "idle"
    /\ \A q \in Reqs : q < r => hstate[q] # "idle"
    /\ hstate' = [hstate EXCEPT ![r] = "waiting"]
    /\ pc' = [pc EXCEPT ![r] = "setdefault"]
    /\ req' = [req EXCEPT ![r] = [key |-> k, role |-> role, content |-> content]]
    /\ sawTitle' = [sawTitle EXCEPT ![r] = chat_titles[k] # None]
    /\ epochAt' = [epochAt EXCEPT ![r] = dels[k]]
    /\ doneBefore' = [doneBefore EXCEPT ![r] =
          {q \in Reqs : hstate[q] = "returned" /\ req[q].key = k}]
    /\ UNCHANGED <<store, response, hist, prompt, tokprompt, model_name,
                   result, error, deleter, calls, toAt, dels, titleWrites,
                   titleCalls,
                   titleWriter, delAt, grounding, estimate, assistant_reply,
                   getter>>

\* Line 135: history = conversations.setdefault(key, [])
SetDefault(r) ==
    /\ pc[r] = "setdefault"
    /\ LET k == req[r].key IN
       IF conversations[k] = 0
       THEN /\ lists' = Append(lists, << >>)
            /\ origin' = Append(origin, << >>)
            /\ conversations' = [conversations EXCEPT ![k] = Len(lists) + 1]
            /\ hist' = [hist EXCEPT ![r] = Len(lists) + 1]
            /\ titleWrites' = [titleWrites EXCEPT ![k] = 0]
            /\ titleCalls' = [titleCalls EXCEPT ![k] = 0]
            /\ titleWriter' = [titleWriter EXCEPT ![k] = 0]
       ELSE /\ hist' = [hist EXCEPT ![r] = conversations[k]]
            /\ UNCHANGED <<lists, origin, conversations, titleWrites, titleCalls,
                           titleWriter>>
    /\ pc' = [pc EXCEPT ![r] = "limit"]
    /\ UNCHANGED <<chat_titles, handler, req, prompt, tokprompt, model_name,
                   result, error, deleter, calls, toAt, sawTitle, epochAt,
                   doneBefore, dels, delAt, grounding, estimate,
                   assistant_reply, getter>>

\* Line 137: the test of the total conversation limit.
LimitCheck(r) ==
    /\ pc[r] = "limit"
    /\ pc' = [pc EXCEPT ![r] = IF LimitReached(hist[r]) THEN "limit_resp"
                               ELSE "title_check"]
    /\ UNCHANGED <<store, handler, req, hist, prompt, tokprompt, model_name,
                   result, error, deleter, ghost, assistant_reply, getter>>

\* Lines 138-142: the limit response reads the title.
LimitReturn(r) ==
    /\ pc[r] = "limit_resp"
    /\ result' = [result EXCEPT ![r] = LimitResponse(chat_titles[req[r].key])]
    /\ pc' = [pc EXCEPT ![r] = "done"]
    /\ hist' = [hist EXCEPT ![r] = 0]
    /\ UNCHANGED <<store, handler, req, prompt, tokprompt, model_name, error,
                   deleter, ghost, assistant_reply, getter>>

\* Lines 145-150: the test for a new conversation; the title call is issued.
TitleCheck(r) ==
    /\ pc[r] = "title_check"
    /\ LET k == req[r].key IN
       IF TitleNeeded(k, hist[r], req[r].role)
       THEN /\ pc' = [pc EXCEPT ![r] = "title_call"]
            /\ calls' = [calls EXCEPT ![r] = @ \cup {"title"}]
            /\ titleCalls' = [titleCalls EXCEPT ![k] = @ + 1]
       ELSE /\ pc' = [pc EXCEPT ![r] = "append_user"]
            /\ UNCHANGED <<calls, titleCalls>>
    /\ UNCHANGED <<store, handler, req, hist, prompt, tokprompt, model_name,
                   result, error, deleter, toAt, sawTitle, epochAt,
                   doneBefore, dels, titleWrites, titleWriter, delAt,
                   grounding, estimate, assistant_reply, getter>>

\* Lines 147-159: the title call returns; the title is sanitized and stored.
TitleReturn(r, raw) ==
    /\ pc[r] = "title_call"
    /\ chat_titles' = [chat_titles EXCEPT ![req[r].key] = Some(SanitizeTitle(raw))]
    /\ titleWrites' = [titleWrites EXCEPT ![req[r].key] = @ + 1]
    /\ titleWriter' = [titleWriter EXCEPT ![req[r].key] = r]
    /\ pc' = [pc EXCEPT ![r] = "append_user"]
    /\ UNCHANGED <<conversations, lists, origin, handler, req, hist, prompt,
                   tokprompt, model_name, result, error, deleter, calls,
                   titleCalls, toAt,
                   sawTitle, epochAt, doneBefore, dels, delAt, grounding,
                   estimate, assistant_reply, getter>>

\* A failure that takes back the append of line 162.
CallFailsRollback(r, exc) ==
    /\ pc[r] \in Blocking
    /\ error' = [error EXCEPT ![r] = Raised(pc[r], exc)]
    /\ pc' = [pc EXCEPT ![r] = "failed"]
    /\ hist' = [hist EXCEPT ![r] = 0]
    /\ prompt' = [prompt EXCEPT ![r] = << >>]
    /\ tokprompt' = [tokprompt EXCEPT ![r] = << >>]
    /\ model_name' = [model_name EXCEPT ![r] = "None"]
    /\ IF pc[r] = "title_call"
       THEN UNCHANGED <<lists, origin>>
       ELSE /\ lists' = [lists EXCEPT ![hist[r]] = SubSeq(@, 1, Len(@) - 1)]
            /\ origin' = [origin EXCEPT ![hist[r]] = SubSeq(@, 1, Len(@) - 1)]
    /\ UNCHANGED <<conversations, chat_titles, handler, req, result, deleter,
                   ghost, assistant_reply, getter>>

\* A collaborator call raises (or its result has no candidate): the
\* exception leaves process_chat and is stored in the future.
CallFails(r, exc) ==
    /\ pc[r] \in Blocking
    /\ error' = [error EXCEPT ![r] = Raised(pc[r], exc)]
    /\ pc' = [pc EXCEPT ![r] = "failed"]
    /\ hist' = [hist EXCEPT ![r] = 0]
    /\ prompt' = [prompt EXCEPT ![r] = << >>]
    /\ tokprompt' = [tokprompt EXCEPT ![r] = << >>]
    /\ model_name' = [model_name EXCEPT ![r] = "None"]
    /\ UNCHANGED <<store, handler, req, result, deleter, ghost,
                   assistant_reply, getter>>

\* Line 162: history.append(request.message)
AppendUser(r) ==
    /\ pc[r] = "append_user"
    /\ lists' = [lists EXCEPT ![hist[r]] =
                    ListAppend(@, Message(req[r].role, req[r].content))]
    /\ origin' = [origin EXCEPT ![hist[r]] =
                    ListAppend(@, [req |-> r, kind |-> "in"])]
    /\ pc' = [pc EXCEPT ![r] = "build_prompt"]
    /\ UNCHANGED <<conversations, chat_titles, handler, req, hist, prompt,
                   tokprompt, model_name, result, error, deleter, ghost,
                   assistant_reply, getter>>

\* Lines 166-169: limited_history = history[-MAX_CHAT_HISTORY:] and the
\* prompt text made of it.
BuildPrompt(r) ==
    /\ pc[r] = "build_prompt"
    /\ prompt' = [prompt EXCEPT ![r] = LastN(lists[hist[r]], MAX_CHAT_HISTORY)]
    /\ pc' = [pc EXCEPT ![r] = "select_model"]
    /\ UNCHANGED <<store, handler, req, hist, tokprompt, model_name,
                   assistant_reply, result, error, deleter, ghost, getter>>

\* Lines 178 and 76-88: select_model reads the whole history for the text
\* to count and issues count_tokens.
CountCall(r) ==
    /\ pc[r] = "select_model"
    /\ tokprompt' = [tokprompt EXCEPT ![r] = lists[hist[r]]]
    /\ calls' = [calls EXCEPT ![r] = @ \cup {"count"}]
    /\ pc' = [pc EXCEPT ![r] = "count_call"]
    /\ UNCHANGED <<store, handler, req, hist, prompt, model_name,
                   assistant_reply, result, error, deleter, toAt, sawTitle,
                   epochAt, doneBefore, dels, titleWrites,
                   titleCalls, titleWriter, delAt,
                   estimate, grounding, getter>>

\* Lines 88-98 and 178-183: count_tokens returns, the tier is chosen and the
\* generation call is issued; or the test of line 93 raises TypeError, which
\* leaves process_chat.
CountReturn(r, estimatedToken) ==
    /\ pc[r] = "count_call"
    /\ LET score == Score(req[r].content) IN
       /\ estimate' = [estimate EXCEPT ![r] =
             IF score >= MODEL_TOP_TIER_THRESHOLD THEN Some(estimatedToken)
             ELSE @]
       /\ IF TierTestRaises(score, estimatedToken)
          THEN /\ error' = [error EXCEPT ![r] = Raised("tier_test", "TypeError")]
               /\ pc' = [pc EXCEPT ![r] = "failed"]
               /\ hist' = [hist EXCEPT ![r] = 0]
               /\ prompt' = [prompt EXCEPT ![r] = << >>]
               /\ UNCHANGED <<model_name, calls>>
          ELSE /\ model_name' = [model_name EXCEPT ![r] =
                                   Tier(score, estimatedToken)]
               /\ calls' = [calls EXCEPT ![r] = @ \cup {"gen"}]
               /\ pc' = [pc EXCEPT ![r] = "gen_call"]
               /\ UNCHANGED <<error, hist, prompt>>
    /\ tokprompt' = [tokprompt EXCEPT ![r] = << >>]
    /\ UNCHANGED <<store, handler, req, result, deleter, toAt, sawTitle,
                   epochAt, doneBefore, dels, titleWrites,
                   titleCalls, titleWriter, delAt,
                   grounding, assistant_reply, getter>>

\* Lines 179-187: the generation call returns and the reply is appended.
GenReturn(r, reply, meta) ==
    /\ pc[r] = "gen_call"
    /\ lists' = [lists EXCEPT ![hist[r]] =
                    ListAppend(@, Message("assistant", reply))]
    /\ origin' = [origin EXCEPT ![hist[r]] =
                    ListAppend(@, [req |-> r, kind |-> "reply"])]
    /\ assistant_reply' = [assistant_reply EXCEPT ![r] = Some(reply)]
    /\ grounding' = [grounding EXCEPT ![r] = meta]
    /\ pc' = [pc EXCEPT ![r] = "build_result"]
    /\ hist' = [hist EXCEPT ![r] = 0]
    /\ prompt' = [prompt EXCEPT ![r] = << >>]
    /\ UNCHANGED <<conversations, chat_titles, handler, req, tokprompt,
                   model_name, result, error, deleter, calls, toAt, sawTitle,
                   epochAt, doneBefore, dels, titleWrites,
                   titleCalls, titleWriter, delAt,
                   estimate, getter>>

\* Lines 188-193: the result is built; it reads the title from chat_titles.
BuildResult(r) ==
    /\ pc[r] = "build_result"
    /\ result' = [result EXCEPT ![r] =
                    SuccessResponse(assistant_reply[r][1],
                                    chat_titles[req[r].key], model_name[r],
                                    add_citations(grounding[r]))]
    /\ pc' = [pc EXCEPT ![r] = "done"]
    /\ model_name' = [model_name EXCEPT ![r] = "None"]
    /\ assistant_reply' = [assistant_reply EXCEPT ![r] = None]
    /\ UNCHANGED <<store, handler, req, hist, prompt, tokprompt, error,
                   deleter, ghost, getter>>

\* Lines 199-206: future.result(timeout=25) raises TimeoutError when 25 s
\* have passed and the future is not done, wherever the worker is: inside a
\* collaborator call or kept from running.  The return value is fixed here;
\* leaving the `with` block then calls executor.shutdown(wait=True).
Timeout(r) ==
    /\ hstate[r] = "waiting"
    /\ pc[r] \notin Finished
    /\ hstate' = [hstate EXCEPT ![r] = "timedout"]
    /\ toAt' = [toAt EXCEPT ![r] =
                   IF pc[r] = "gen_call" THEN pc[r] ELSE "elsewhere"]
    /\ UNCHANGED <<store, response, worker, deleter, calls, sawTitle, epochAt,
                   doneBefore, dels, titleWrites,
                   titleCalls, titleWriter, delAt,
                   grounding, estimate, getter>>

\* Lines 199-200: the worker finished in time with a result.
ReturnResult(r) ==
    /\ hstate[r] = "waiting"
    /\ pc[r] = "done"
    /\ hstate' = [hstate EXCEPT ![r] = "returned"]
    /\ response' = [response EXCEPT ![r] = result[r]]
    /\ result' = [result EXCEPT ![r] = NoResponse]
    /\ UNCHANGED <<store, pc, req, hist, prompt, tokprompt, model_name, error,
                   deleter, ghost, assistant_reply, getter>>

\* Lines 199, 207-208: the worker finished in time with an exception.
ReturnError(r) ==
    /\ hstate[r] = "waiting"
    /\ pc[r] = "failed"
    /\ hstate' = [hstate EXCEPT ![r] = "returned"]
    /\ response' = [response EXCEPT ![r] = ErrorResponse(error[r])]
    /\ UNCHANGED <<store, worker, deleter, ghost, getter>>

\* Lines 199-206: the worker finished in time with a TimeoutError.  Since
\* Python 3.11 concurrent.futures.TimeoutError is the builtin TimeoutError, so
\* the clause of line 201 catches it; before 3.11 it is a different class and
\* ReturnError applies.
ReturnCaughtTimeoutError(r) ==
    /\ hstate[r] = "waiting"
    /\ pc[r] = "failed"
    /\ error[r].exc = "TimeoutError"
    /\ hstate' = [hstate EXCEPT ![r] = "returned"]
    /\ response' = [response EXCEPT ![r] = TimeoutResponse]
    /\ UNCHANGED <<store, worker, deleter, ghost, getter>>

\* Lines 196, 202-206: after the timeout, the `with` block is left only when
\* the worker thread has ended; then the timeout response is returned.
ReturnTimeout(r) ==
    /\ hstate[r] = "timedout"
    /\ pc[r] \in Finished
    /\ hstate' = [hstate EXCEPT ![r] = "returned"]
    /\ response' = [response EXCEPT ![r] = TimeoutResponse]
    /\ result' = [result EXCEPT ![r] = NoResponse]
    /\ UNCHANGED <<store, pc, req, hist, prompt, tokprompt, model_name, error,
                   deleter, ghost, assistant_reply, getter>>

----------------------------------------------------------------------------
(* DELETE /user/{user_id}/chat/{chat_id}: delete_chat, lines 230-246 *)

\* Line 236: key in conversations
KeyInAlways(k) == TRUE
KeyIn(k) == conversations[k] # 0

DeleteStart(d, k) ==
    /\ dpc[d] = "idle"
    /\ \A e \in Dels : e < d => dpc[e] # "idle"
    /\ dpc' = [dpc EXCEPT ![d] = "check"]
    /\ dkey' = [dkey EXCEPT ![d] = k]
    /\ UNCHANGED <<store, handler, worker, dresp, ghost, getter>>

\* Lines 236-237.
DeleteCheck(d) ==
    /\ dpc[d] = "check"
    /\ IF ~KeyIn(dkey[d])
       THEN /\ dpc' = [dpc EXCEPT ![d] = "done"]
            /\ dresp' = [dresp EXCEPT ![d] = HTTP_STATUS_NOT_FOUND]
       ELSE /\ dpc' = [dpc EXCEPT ![d] = "del_conv"]
            /\ UNCHANGED dresp
    /\ UNCHANGED <<store, handler, worker, dkey, ghost, getter>>

\* Line 240: del conversations[key]; KeyError when another delete was first.
DeleteConversation(d) ==
    /\ dpc[d] = "del_conv"
    /\ LET k == dkey[d] IN
       IF conversations[k] = 0
       THEN /\ dpc' = [dpc EXCEPT ![d] = "done"]
            /\ dresp' = [dresp EXCEPT ![d] = HTTP_STATUS_INTERNAL_ERROR]
            /\ UNCHANGED <<conversations, dels>>
       ELSE /\ conversations' = [conversations EXCEPT ![k] = 0]
            /\ dels' = [dels EXCEPT ![k] = @ + 1]
            /\ dpc' = [dpc EXCEPT ![d] = "del_title"]
            /\ UNCHANGED dresp
    /\ UNCHANGED <<lists, origin, chat_titles, handler, worker, dkey, calls,
                   toAt, sawTitle, epochAt, doneBefore, titleWrites,
                   titleCalls,
                   titleWriter, delAt, grounding, estimate, getter>>

\* Line 243: the test `key in chat_titles`; without a title the handler
\* returns at line 246.
DeleteTitleTest(d) ==
    /\ dpc[d] = "del_title"
    /\ IF chat_titles[dkey[d]] # None
       THEN /\ dpc' = [dpc EXCEPT ![d] = "del_title_del"]
            /\ UNCHANGED <<dresp, dels, delAt>>
       ELSE /\ dpc' = [dpc EXCEPT ![d] = "done"]
            /\ dresp' = [dresp EXCEPT ![d] = 200]
            /\ dels' = [dels EXCEPT ![dkey[d]] = @ + 1]
            /\ delAt' = [delAt EXCEPT ![d] = dels[dkey[d]] + 1]
    /\ UNCHANGED <<store, handler, worker, dkey, calls, toAt, sawTitle,
                   epochAt, doneBefore, titleWrites,
                   titleCalls, titleWriter, grounding,
                   estimate, getter>>

\* chat_titles.clear() in the place of del chat_titles[key].
DeleteAllTitles(d) ==
    /\ dpc[d] = "del_title_del"
    /\ chat_titles' = [k \in Keys |-> None]
    /\ dels' = [dels EXCEPT ![dkey[d]] = @ + 1]
    /\ delAt' = [delAt EXCEPT ![d] = dels[dkey[d]] + 1]
    /\ dpc' = [dpc EXCEPT ![d] = "done"]
    /\ dresp' = [dresp EXCEPT ![d] = 200]
    /\ UNCHANGED <<conversations, lists, origin, handler, worker, dkey, calls,
                   toAt, sawTitle, epochAt, doneBefore, titleWrites,
                   titleCalls,
                   titleWriter, grounding, estimate, getter>>

\* Lines 244-246: del chat_titles[key] and the return; KeyError when another
\* delete removed the title after the test of line 243.
DeleteTitle(d) ==
    /\ dpc[d] = "del_title_del"
    /\ IF chat_titles[dkey[d]] = None
       THEN /\ dresp' = [dresp EXCEPT ![d] = HTTP_STATUS_INTERNAL_ERROR]
            /\ UNCHANGED <<chat_titles, dels, delAt>>
       ELSE /\ chat_titles' = [chat_titles EXCEPT ![dkey[d]] = None]
            /\ dels' = [dels EXCEPT ![dkey[d]] = @ + 1]
            /\ delAt' = [delAt EXCEPT ![d] = dels[dkey[d]] + 1]
            /\ dresp' = [dresp EXCEPT ![d] = 200]
    /\ dpc' = [dpc EXCEPT ![d] = "done"]
    /\ UNCHANGED <<conversations, lists, origin, handler, worker, dkey, calls,
                   toAt, sawTitle, epochAt, doneBefore, titleWrites,
                   titleCalls,
                   titleWriter, grounding, estimate, getter>>

----------------------------------------------------------------------------
(* GET handlers, lines 212-227 *)

\* The keys of `conversations`.  The dictionary keeps its keys in the order
\* of their insertion, which is the order of the list objects in `lists`;
\* the entry of a deleted key stays in its place, empty.  (No resize of the
\* dictionary happens below six insertions.)
LiveKeys == { k \in Keys : conversations[k] # 0 }
LiveAfter(i) ==
    { j \in (i + 1)..Len(lists) : \E k \in Keys : conversations[k] = j }
KeyAt(i) == CHOOSE k \in Keys : conversations[k] = i
MinOf(S) == CHOOSE x \in S : \A y \in S : x <= y

TitleOrEmpty(k) == IF chat_titles[k] = None THEN << >> ELSE chat_titles[k][1]

\* Lines 213-216: the handler starts the iteration over conversations.keys().
GetIdsStart(g, user_id) ==
    /\ gpc[g] = "idle"
    /\ \A e \in Gets : e < g => gpc[e] # "idle"
    /\ gpc' = [gpc EXCEPT ![g] = "ids_next"]
    /\ gkind' = [gkind EXCEPT ![g] = "ids"]
    /\ gkey' = [gkey EXCEPT ![g] = <<user_id, "">>]
    /\ gpos' = [gpos EXCEPT ![g] = 0]
    /\ gused' = [gused EXCEPT ![g] = Cardinality(LiveKeys)]
    /\ glen' = [glen EXCEPT ![g] = Cardinality(LiveKeys)]
    /\ gout' = [gout EXCEPT ![g] = << >>]
    /\ UNCHANGED <<store, handler, worker, deleter, ghost, gresp, gepoch,
                   gdone>>

\* Line 216: the next key of the iteration.  The iterator raises RuntimeError
\* when the dictionary has changed its size since the iteration began, or
\* when it finds a key after it has given out as many as there were; the
\* exception is not caught and the request ends with HTTP 500.
GetIdsNext(g) ==
    /\ gpc[g] = "ids_next"
    /\ IF Cardinality(LiveKeys) # gused[g]
          \/ (LiveAfter(gpos[g]) # {} /\ glen[g] = 0)
       THEN /\ gpc' = [gpc EXCEPT ![g] = "done"]
            /\ gresp' = [gresp EXCEPT ![g] =
                           [status |-> HTTP_STATUS_INTERNAL_ERROR]]
            /\ gout' = [gout EXCEPT ![g] = << >>]
            /\ UNCHANGED <<gkey, gpos, glen>>
       ELSE IF LiveAfter(gpos[g]) = {}
       THEN /\ gpc' = [gpc EXCEPT ![g] = "done"]
            /\ gresp' = [gresp EXCEPT ![g] = [status |-> 200, chats |-> gout[g]]]
            /\ gout' = [gout EXCEPT ![g] = << >>]
            /\ UNCHANGED <<gkey, gpos, glen>>
       ELSE LET i == MinOf(LiveAfter(gpos[g]))
                k == KeyAt(i)
            IN  /\ gpos' = [gpos EXCEPT ![g] = i]
                /\ glen' = [glen EXCEPT ![g] = @ - 1]
                /\ IF k[1] = gkey[g][1]
                   THEN /\ gpc' = [gpc EXCEPT ![g] = "ids_title"]
                        /\ gkey' = [gkey EXCEPT ![g] = k]
                   ELSE UNCHANGED <<gpc, gkey>>
                /\ UNCHANGED <<gresp, gout>>
    /\ UNCHANGED <<store, handler, worker, deleter, ghost, gkind, gused,
                   gepoch, gdone>>

\* Line 215: the entry of the key, with chat_titles.get((uid, chat_id), "").
GetIdsTitle(g) ==
    /\ gpc[g] = "ids_title"
    /\ gout' = [gout EXCEPT ![g] =
                   Append(@, [chat_id |-> gkey[g][2],
                              title |-> TitleOrEmpty(gkey[g])])]
    /\ gpc' = [gpc EXCEPT ![g] = "ids_next"]
    /\ UNCHANGED <<store, handler, worker, deleter, ghost, gkind, gkey, gpos,
                   gused, glen, gresp, gepoch, gdone>>

get_chat_ids(g) ==
    \/ \E user_id \in Users : GetIdsStart(g, user_id)
    \/ GetIdsNext(g)
    \/ GetIdsTitle(g)

\* Lines 223-224: history = conversations.get(key, [])
GetHistoryStart(g, k) ==
    /\ gpc[g] = "idle"
    /\ \A e \in Gets : e < g => gpc[e] # "idle"
    /\ gpc' = [gpc EXCEPT ![g] = "hist_messages"]
    /\ gkind' = [gkind EXCEPT ![g] = "history"]
    /\ gkey' = [gkey EXCEPT ![g] = k]
    /\ gpos' = [gpos EXCEPT ![g] = conversations[k]]
    /\ gepoch' = [gepoch EXCEPT ![g] = dels[k]]
    /\ gdone' = [gdone EXCEPT ![g] = {r \in Reqs : hstate[r] = "returned"}]
    /\ UNCHANGED <<store, handler, worker, deleter, ghost, gused, glen, gout,
                   gresp>>

\* Line 225: the messages are copied from the list.
GetHistoryMessages(g) ==
    /\ gpc[g] = "hist_messages"
    /\ gout' = [gout EXCEPT ![g] =
                   IF gpos[g] = 0 THEN << >> ELSE lists[gpos[g]]]
    /\ gpc' = [gpc EXCEPT ![g] = "hist_title"]
    /\ UNCHANGED <<store, handler, worker, deleter, ghost, gkind, gkey, gpos,
                   gused, glen, gresp, gepoch, gdone>>

\* Lines 226-227: title = chat_titles.get(key, "") and the return.
GetHistoryTitle(g) ==
    /\ gpc[g] = "hist_title"
    /\ gresp' = [gresp EXCEPT ![g] =
                    [status |-> 200, title |-> TitleOrEmpty(gkey[g]),
                     messages |-> gout[g]]]
    /\ gout' = [gout EXCEPT ![g] = << >>]
    /\ gpos' = [gpos EXCEPT ![g] = 0]
    /\ gpc' = [gpc EXCEPT ![g] = "done"]
    /\ UNCHANGED <<store, handler, worker, deleter, ghost, gkind, gkey,
                   gused, glen, gepoch, gdone>>

get_chat_history(g) ==
    \/ \E k \in Keys : GetHistoryStart(g, k)
    \/ GetHistoryMessages(g)
    \/ GetHistoryTitle(g)

----------------------------------------------------------------------------
WorkerStep(r) ==
    \/ SetDefault(r)
    \/ LimitCheck(r)
    \/ LimitReturn(r)
    \/ TitleCheck(r)
    \/ \E raw \in RawTitles : TitleReturn(r, raw)
    \/ \E exc \in Failures : CallFails(r, exc)
    \/ AppendUser(r)
    \/ BuildPrompt(r)
    \/ CountCall(r)
    \/ \E n \in TokenCounts : CountReturn(r, n)
    \/ \E reply \in Replies, meta \in GroundingInputs :
          GenReturn(r, reply, meta)
    \/ BuildResult(r)

HandlerStep(r) ==
    \/ Timeout(r)
    \/ ReturnResult(r)
    \/ ReturnError(r)
    \/ ReturnCaughtTimeoutError(r)
    \/ ReturnTimeout(r)

DeleteStep(d) ==
    \/ \E k \in Keys : DeleteStart(d, k)
    \/ DeleteCheck(d)
    \/ DeleteConversation(d)
    \/ DeleteTitleTest(d)
    \/ DeleteTitle(d)

Next ==
    \/ \E r \in Reqs, k \in Keys, role \in Roles, c \in Contents :
          Request(r, k, role, c)
    \/ \E r \in Reqs : WorkerStep(r)
    \/ \E r \in Reqs : HandlerStep(r)
    \/ \E d \in RaceDels : DeleteStep(d)

Spec == Init /\ [][Next]_vars

\* One chat request on its own, with the wide input sets: the history it
\* finds, its message, the token count and the grounding metadata vary.
InitOne == (\E n \in WideLens : StoreWith(n)) /\ Idle

OneStep(r) ==
    \/ \E role \in Roles, c \in WideContents : Request(r, K1, role, c)
    \/ SetDefault(r)
    \/ LimitCheck(r)
    \/ LimitReturn(r)
    \/ TitleCheck(r)
    \/ \E raw \in WideRawTitles : TitleReturn(r, raw)
    \/ \E exc \in Failures : CallFails(r, exc)
    \/ AppendUser(r)
    \/ BuildPrompt(r)
    \/ CountCall(r)
    \/ \E n \in WideTokenCounts : CountReturn(r, n)
    \/ \E reply \in Replies, meta \in WideGroundingInputs :
          GenReturn(r, reply, meta)
    \/ BuildResult(r)
    \/ HandlerStep(r)

NextOne == OneStep(1)

SpecOne == InitOne /\ [][NextOne]_vars

\* The GET handlers next to one chat request and the DELETE handlers, K1
\* being at the limit.  The GET handlers write nothing that the other
\* handlers read.
GetStep(g) == get_chat_ids(g) \/ get_chat_history(g)

InitGet == StoreWith(MAX_TOTAL_CONVERSATION) /\ Idle

NextGet ==
    \/ \E k \in Keys, role \in Roles, c \in Contents : Request(1, k, role, c)
    \/ WorkerStep(1)
    \/ HandlerStep(1)
    \/ \E d \in Dels : DeleteStep(d)
    \/ \E g \in Gets : GetStep(g)

SpecGet == InitGet /\ [][NextGet]_vars

TypeOK ==
    /\ \A k \in Keys : conversations[k] \in 0..Len(lists)
    /\ \A r \in Reqs : hist[r] \in 0..Len(lists)
    /\ Len(origin) = Len(lists)
    /\ \A i \in 1..Len(lists) :
          Len(origin[i]) <= Len(lists[i])
    /\ \A g \in Gets : gpos[g] \in 0..Len(lists)

----------------------------------------------------------------------------
(* Properties *)

In(r) == [req |-> r, kind |-> "in"]
Reply(r) == [req |-> r, kind |-> "reply"]

\* The entry e is in the sequence o.
Has(o, e) == \E i \in 1..Len(o) : o[i] = e

\* Request r's reply is in some list, stored or not.
ReplyAnywhere(r) == \E l \in 1..Len(origin) : Has(origin[l], Reply(r))

IsSuccess(resp) == resp.status = 200 /\ resp.response.kind = "message"

\* C1: when the timeout of a chat request fires while its generation call is
\* in flight, the request returns the timeout response and its assistant
\* reply is never in the stored history of its key.
C1_NoReplyAfterTimeout ==
    \A r \in Reqs :
        toAt[r] = "gen_call" =>
            /\ ~Has(StoredOrigin(req[r].key), Reply(r))
            /\ hstate[r] = "returned" => response[r] = TimeoutResponse

\* C2: once the timeout of a chat request has fired, the timeout response can
\* be returned whether or not the worker has finished.
C2_ReturnDoesNotWaitForWorker ==
    \A r \in Reqs : hstate[r] = "timedout" => ENABLED ReturnTimeout(r)

\* C3: a chat request that finds the history at or above the limit issues
\* no collaborator call and leaves the lists, the conversations and the
\* titles unchanged; process_chat returns the limit response with the stored
\* title and no model, and the handler answers with it.  The last part is
\* stated for a handler whose wait of line 199 has not run out: the limit
\* path has no collaborator call, and the collaborator calls are the only
\* operations that may take time, so the 25 s can pass on it only when the
\* host keeps the worker thread from running, whatever the request is.
C3_LimitStep(r) ==
    /\ (pc[r] = "limit" /\ pc'[r] # "limit"
            /\ Len(lists[hist[r]]) >= MAX_TOTAL_CONVERSATION)
        => (pc'[r] = "limit_resp" /\ UNCHANGED <<store, calls>>)
    /\ (pc[r] = "limit_resp" /\ pc'[r] # "limit_resp")
        => /\ pc'[r] = "done"
           /\ result'[r].status = 200
           /\ result'[r].response =
                TextBody("Conversation limit is ended. Please start a new chat.")
           /\ result'[r].title = chat_titles[req[r].key]
           /\ result'[r].model = "None"
           /\ calls'[r] = {}
           /\ UNCHANGED store
    /\ (pc[r] = "done" /\ calls[r] = {} /\ hstate[r] = "waiting"
            /\ hstate'[r] # hstate[r])
        => (hstate'[r] = "returned" /\ response'[r] = result[r]
            /\ UNCHANGED store)

C3_LimitReached == [][\A r \in Reqs : C3_LimitStep(r)]_vars

C3_Witness ==
    \E r \in Reqs :
        /\ hstate[r] = "returned"
        /\ toAt[r] = ""
        /\ calls[r] = {}
        /\ response[r] = LimitResponse(Some(PreloadTitle))
        /\ Len(Stored(req[r].key)) >= MAX_TOTAL_CONVERSATION

\* C4: every stored conversation holds at most MAX_TOTAL_CONVERSATION
\* messages.
C4_AtMostMaxMessages ==
    \A k \in Keys : Len(Stored(k)) <= MAX_TOTAL_CONVERSATION

\* C5: a chat request whose generation call failed before the timeout of
\* the request had fired ends with HTTP 500 and has appended no assistant
\* message to any list.
C5_GenFailureIs500 ==
    \A r \in Reqs :
        (error[r].at = "gen_call" /\ toAt[r] = "" /\ hstate[r] = "returned") =>
            /\ response[r].status = HTTP_STATUS_INTERNAL_ERROR
            /\ ~ReplyAnywhere(r)

\* C6: a failure of the token count does not fail the chat request.
C6_CountFailureTolerated ==
    \A r \in Reqs : ~(error[r].at = "count_call" /\ pc[r] = "failed")

\* C7: a chat request that arrived when a title was stored for its key does
\* not change that title in any of its steps, as long as delete_chat has
\* removed nothing of the key since the request arrived.
C7_Step(r) ==
    (pc'[r] # pc[r] /\ sawTitle[r] /\ dels[req[r].key] = epochAt[r])
        => chat_titles'[req[r].key] = chat_titles[req[r].key]

C7_TitleUnchanged == [][\A r \in Reqs : C7_Step(r)]_vars

C7_Witness ==
    \E r \in Reqs :
        /\ sawTitle[r]
        /\ dels[req[r].key] = epochAt[r]
        /\ hstate[r] = "returned"
        /\ IsSuccess(response[r])
        /\ response[r].title = chat_titles[req[r].key]

\* The request that wrote the title of k carried a user message, and that
\* message, once in the stored history, is its first message.
FirstUserWriter(k) ==
    titleWriter[k] # 0 =>
        /\ req[titleWriter[k]].role = "user"
        /\ \A i \in 1..Len(StoredOrigin(k)) :
              StoredOrigin(k)[i] = In(titleWriter[k]) =>
                  /\ i = 1
                  /\ Len(Stored(k)) = Len(StoredOrigin(k))
                  /\ Stored(k)[1] = Message("user", req[titleWriter[k]].content)

\* Two chat requests to k were in flight at the same time: the later one
\* arrived before the earlier one had returned.
Overlap(k) ==
    \E a, b \in Reqs :
        /\ a < b
        /\ hstate[b] # "idle"
        /\ req[a].key = k
        /\ req[b].key = k
        /\ a \notin doneBefore[b]

\* The first message of the stored history of k is the incoming message of
\* the chat request q.
FirstIs(k, q) ==
    /\ StoredOrigin(k) # << >>
    /\ Len(Stored(k)) = Len(StoredOrigin(k))
    /\ StoredOrigin(k)[1] = In(q)

\* A user message of a chat request is in the stored history of k.
HasUserMessage(k) ==
    \E i \in 1..Len(StoredOrigin(k)) :
        /\ StoredOrigin(k)[i].kind = "in"
        /\ req[StoredOrigin(k)[i].req].role = "user"

\* The title calls for k that have not written a title: those in flight and
\* those that failed.
TitleCallsOpen(k) ==
    Cardinality({ r \in Reqs :
                    /\ req[r].key = k
                    /\ (pc[r] = "title_call" \/ error[r].at = "title_call") })

\* C8 as stated: between the creation and the deletion of a key the title
\* call is made and the title is written no more than once, by the request
\* that carries the first user message, and both have happened once a user
\* message is in the history, whatever the interleaving.
C8_TitleOnce ==
    \A k \in Keys :
        conversations[k] # 0 =>
            /\ titleCalls[k] <= 1
            /\ titleWrites[k] <= 1
            /\ FirstUserWriter(k)
            /\ HasUserMessage(k) => (titleCalls[k] = 1 /\ titleWrites[k] = 1)

\* C8 amended: as long as no two chat requests to a key have been in flight
\* at the same time, between the creation and the deletion of the key
\*   - the title is written at most once, and only by a request whose user
\*     message is the first of the history;
\*   - the title call is made once for the write and once more only for
\*     every title call that failed;
\*   - the write has happened exactly once, by the request q and after
\*     its title call, when the first message of the history is the user
\*     message of q and no title was stored when q arrived.
C8_TitleAtMostOnce ==
    \A k \in Keys :
        (conversations[k] # 0 /\ ~Overlap(k)) =>
            /\ titleWrites[k] <= 1
            /\ FirstUserWriter(k)
            /\ titleCalls[k] <= titleWrites[k] + TitleCallsOpen(k)
            /\ \A q \in Reqs :
                  (FirstIs(k, q) /\ req[q].role = "user" /\ ~sawTitle[q]) =>
                      /\ titleWrites[k] = 1
                      /\ titleWriter[k] = q
                      /\ "title" \in calls[q]
                      /\ titleCalls[k] >= 1

C8_Witness ==
    \E k \in Keys, q \in Reqs :
        /\ conversations[k] # 0
        /\ ~Overlap(k)
        /\ titleWrites[k] = 1
        /\ titleCalls[k] = 1
        /\ titleWriter[k] \notin {0, q}
        /\ FirstIs(k, titleWriter[k])
        /\ req[q].key = k
        /\ req[q].role = "user"
        /\ hstate[q] = "returned"
        /\ IsSuccess(response[q])

\* C9: a key with a stored title has a stored conversation with at least
\* one message.
C9_TitleImpliesMessages ==
    \A k \in Keys :
        chat_titles[k] # None => (conversations[k] # 0 /\ Len(Stored(k)) >= 1)

\* C10 (requests are numbered by arrival): in the stored history of a key
\* the incoming message of an earlier request stands before the incoming
\* message of a later request.
C10_ArrivalOrder ==
    \A k \in Keys :
        LET o == StoredOrigin(k) IN
        \A i, j \in 1..Len(o) :
            (i < j /\ o[i].kind = "in" /\ o[j].kind = "in")
                => o[i].req < o[j].req

\* C10 amended: when request A had returned before request B to the same key
\* arrived, the incoming message of A stands before the incoming message of
\* B in the stored history of the key.
C10_OrderAfterReturn ==
    \A k \in Keys :
        LET o == StoredOrigin(k) IN
        \A i, j \in 1..Len(o) :
            (i < j /\ o[i].kind = "in" /\ o[j].kind = "in")
                => o[j].req \notin doneBefore[o[i].req]

C10_Witness ==
    \E k \in Keys :
        LET o == StoredOrigin(k) IN
        \E i, j \in 1..Len(o) :
            /\ i < j
            /\ o[i].kind = "in"
            /\ o[j].kind = "in"
            /\ o[i].req \in doneBefore[o[j].req]

\* The chat request r to k arrived after the delete d of k had returned.
ArrivedAfter(r, d) ==
    hstate[r] # "idle" /\ req[r].key = dkey[d] /\ epochAt[r] >= delAt[d]

\* C11: a GET of the history of a key that starts after a DELETE of the key
\* has returned 200 finds the conversation and the title both gone: when it
\* returns no messages it returns no title.  (Every chat request to the key
\* had arrived before the DELETE returned and had returned before the GET
\* started; such a request may have created the key again, as it would when
\* served after the DELETE, and then the GET returns its messages.)
C11_DeleteRemovesBoth ==
    \A g \in Gets, d \in Dels :
        (/\ gpc[g] = "done"
         /\ gkind[g] = "history"
         /\ gkey[g] = dkey[d]
         /\ dresp[d] = 200
         /\ gepoch[g] >= delAt[d]
         /\ \A r \in Reqs :
               (hstate[r] # "idle" /\ req[r].key = dkey[d])
                   => (r \in gdone[g] /\ ~ArrivedAfter(r, d)))
            => (gresp[g].messages = << >> => gresp[g].title = << >>)

\* C12: a DELETE that finds no stored conversation for its key ends with
\* HTTP 404 in that step and changes neither the conversations nor the
\* titles.
C12_Step(d) ==
    (dpc[d] = "check" /\ dpc'[d] # "check" /\ conversations[dkey[d]] = 0)
        => /\ dpc'[d] = "done"
           /\ dresp'[d] = HTTP_STATUS_NOT_FOUND
           /\ UNCHANGED <<conversations, lists, chat_titles>>

C12_NotFound == [][\A d \in Dels : C12_Step(d)]_vars

C12_Witness ==
    \E d \in Dels :
        /\ dpc[d] = "done"
        /\ dresp[d] = HTTP_STATUS_NOT_FOUND
        /\ conversations[dkey[d]] = 0
        /\ chat_titles[dkey[d]] = None

\* select_tier as the specification states it; est is the optional estimate.
ClaimedTier(score, est) ==
    IF score >= MODEL_TOP_TIER_THRESHOLD
       /\ (est = None \/ est[1] = NoneCount
           \/ est[1].total > TOKEN_THRESHOLD_PRO)
    THEN "gemini-2.5-pro"
    ELSE IF score >= MODEL_MEDIUM_TIER_THRESHOLD THEN "gemini-2.5-flash"
    ELSE "gemini-2.5-flash-lite"

\* C13: when the token count of a chat request ends, with an estimate or
\* without one, the request goes on to the generation call with the tier
\* that the score of its message and the estimate determine (Top when the
\* score is at least 15 and the estimate is unavailable or above 3000, else
\* Standard when the score is at least 8, else Lite), and the count was
\* taken over the whole stored history.
C13_Step(r) ==
    (pc[r] = "count_call" /\ pc'[r] # "count_call")
        => /\ pc'[r] = "gen_call"
           /\ model_name'[r] = ClaimedTier(Score(req[r].content), estimate'[r])
           /\ tokprompt[r] = Stored(req[r].key)

C13_TierSelection == [][\A r \in Reqs : C13_Step(r)]_vars

\* C14: the big-O message has a score at or above the high threshold and,
\* its history counting more than TOKEN_THRESHOLD_PRO tokens, goes on to the
\* generation call with the Top tier; "hi" has the base score and goes on
\* with the Lite tier.
C14_Step(r) ==
    (pc[r] = "count_call" /\ pc'[r] # "count_call"
            /\ error'[r].exc \notin Failures)
        => /\ (/\ req[r].content = BigOMessage
               /\ estimate'[r] # None
               /\ estimate'[r][1].total > TOKEN_THRESHOLD_PRO)
                => /\ Score(BigOMessage) >= MODEL_TOP_TIER_THRESHOLD
                   /\ pc'[r] = "gen_call"
                   /\ model_name'[r] = "gemini-2.5-pro"
           /\ req[r].content = HiMessage
                => /\ Score(HiMessage) = 1
                   /\ pc'[r] = "gen_call"
                   /\ model_name'[r] = "gemini-2.5-flash-lite"

C14_BigOIsTop == [][\A r \in Reqs : C14_Step(r)]_vars

Min(a, b) == IF a <= b THEN a ELSE b

\* The entry e is the last one of the sequence o.
LastIs(o, e) == o # << >> /\ o[Len(o)] = e

\* The prompt of request r is the window of the stored history of its key:
\* the last min(MAX_CHAT_HISTORY, n) of its n messages in their order, the
\* last one being the message r appended.  The step leaves the store alone,
\* so that all n messages, those older than the window too, are what
\* get_chat_history reads for the key at line 224 (Stored).
PromptIsWindow(r) ==
    LET k == req[r].key
        h == Stored(k)
        n == Len(h)
        w == Min(MAX_CHAT_HISTORY, n)
    IN  /\ n >= 1
        /\ Len(prompt'[r]) = w
        /\ \A i \in 1..w : prompt'[r][i] = h[n - w + i]
        /\ prompt'[r][w] = Message(req[r].role, req[r].content)
        /\ LastIs(StoredOrigin(k), In(r))
        /\ UNCHANGED store
        /\ Stored(k)' = h

\* C15 as stated: whenever a chat request builds its prompt, the prompt is
\* the window of the stored history of its key.
C15_StepAsStated(r) ==
    (pc[r] = "build_prompt" /\ pc'[r] # "build_prompt") => PromptIsWindow(r)

C15_PromptIsWindow == [][\A r \in Reqs : C15_StepAsStated(r)]_vars

\* C15 amended: the prompt is the window of the stored history of the key
\* when no two chat requests to the key have been in flight at the same time
\* and delete_chat has removed nothing of the key since the request arrived.
\* Either condition alone is not enough: a second request to the key can
\* append between lines 162 and 166 of the first, and a DELETE between
\* lines 135 and 166 leaves the request with a list that is no longer the
\* stored one.
C15_Step(r) ==
    (/\ pc[r] = "build_prompt"
     /\ pc'[r] # "build_prompt"
     /\ ~Overlap(req[r].key)
     /\ dels[req[r].key] = epochAt[r]) => PromptIsWindow(r)

C15_PromptIsWindowAlone == [][\A r \in Reqs : C15_Step(r)]_vars

C15_Witness ==
    \E r \in Reqs :
        /\ pc[r] = "count_call"
        /\ ~Overlap(req[r].key)
        /\ dels[req[r].key] = epochAt[r]
        /\ doneBefore[r] # {}
        /\ Len(prompt[r]) = MAX_CHAT_HISTORY
        /\ Len(Stored(req[r].key)) > MAX_CHAT_HISTORY
        /\ LastIs(StoredOrigin(req[r].key), In(r))

IsPrefix(a, b) ==
    a = b \/ (Len(a) <= Len(b) /\ \A i \in 1..Len(a) : a[i] = b[i])

\* C15, the clause on get_chat_history, with the GET handler's own steps
\* (SpecGet, where the stored history of K1 is longer than the window): a
\* GET of the history of a key of which delete_chat had removed nothing when
\* the GET started returns every message that was stored, those older than
\* the window too.
C15_OlderMessagesReturned ==
    \A g \in Gets :
        (/\ gpc[g] = "done"
         /\ gkind[g] = "history"
         /\ gkey[g] = K1
         /\ gepoch[g] = 0)
            => IsPrefix(PreloadOf(MAX_TOTAL_CONVERSATION), gresp[g].messages)

\* C16: in every step that is no removal by delete_chat of the key, the
\* stored history of the key before the step is a prefix of the stored
\* history after it: messages are only added at the end, and no message
\* changes its role or content.
C16_Step(k) == dels'[k] = dels[k] => IsPrefix(Stored(k), Stored(k)')

C16_GrowsAtEnd == [][\A k \in Keys : C16_Step(k)]_vars

C16_Witness ==
    \E a, b \in Reqs :
        /\ a # b
        /\ dels[K1] = 0
        /\ Overlap(K1)
        /\ Has(StoredOrigin(K1), In(a))
        /\ Has(StoredOrigin(K1), In(b))
        /\ Has(StoredOrigin(K1), Reply(a))
        /\ IsPrefix(Preload, Stored(K1))

\* The grounding metadata m has a chunk with a web URL.
Qualifies(m) ==
    /\ m # None
    /\ m[1].supports
    /\ \E i \in 1..Len(m[1].chunks) : m[1].chunks[i] # None

\* C17: the citation text of a successful chat request is empty when the
\* grounding metadata, the supports or the chunks are missing or no chunk
\* has a URL; otherwise, after its heading, it has one line for every chunk
\* with a URL and no other line, the line carries the 1-based position of
\* the chunk and the URL of the chunk, and the lines stand in ascending
\* order of position.  Chunks with the same URL keep their own lines.
C17_Citations ==
    \A r \in Reqs :
        (hstate[r] = "returned" /\ IsSuccess(response[r])) =>
            LET m == grounding[r]
                c == response[r].citation
            IN  IF ~Qualifies(m) THEN c = << >>
                ELSE LET chunks == m[1].chunks
                         e == Tail(c)
                     IN  /\ c[1].url = "Referensi:"
                         /\ \A j \in 1..Len(e) :
                               /\ e[j].idx \in 1..Len(chunks)
                               /\ chunks[e[j].idx] = Some(e[j].url)
                         /\ \A i \in 1..Len(chunks) :
                               chunks[i] # None =>
                                   \E j \in 1..Len(e) : e[j].idx = i
                         /\ \A i, j \in 1..Len(e) :
                               i < j => e[i].idx < e[j].idx

C17_Witness ==
    \E r \in Reqs :
        /\ hstate[r] = "returned"
        /\ IsSuccess(response[r])
        /\ grounding[r] =
             Some([supports |-> TRUE, chunks |-> << Some("a"), None, Some("b") >>])
        /\ Tail(response[r].citation) =
             << [idx |-> 1, url |-> "a"], [idx |-> 3, url |-> "b"] >>

\* C18: a step of a chat request or of a DELETE leaves the stored history
\* and the stored title of every key other than its own unchanged, and
\* neither creates nor removes another key.
FrameOf(k) ==
    \A o \in Keys \ {k} :
        /\ Stored(o)' = Stored(o)
        /\ chat_titles'[o] = chat_titles[o]
        /\ (conversations'[o] = 0) = (conversations[o] = 0)

C18_Step ==
    /\ \A r \in Reqs :
          (pc'[r] # pc[r] \/ hstate'[r] # hstate[r]) => FrameOf(req'[r].key)
    /\ \A d \in Dels : dpc'[d] # dpc[d] => FrameOf(dkey'[d])

C18_OtherKeysUnchanged == [][C18_Step]_vars

C18_Witness ==
    \E r, q \in Reqs, d \in Dels :
        /\ req[r].key = K1
        /\ req[q].key = K2
        /\ hstate[r] = "returned"
        /\ hstate[q] = "returned"
        /\ r \notin doneBefore[q]
        /\ q \notin doneBefore[r]
        /\ dkey[d] = K1
        /\ dresp[d] = 200
        /\ chat_titles[K2] # None
        /\ Len(Stored(K2)) = 2

\* The chat request r has ended with HTTP 500 because its token count, the
\* tier test or its generation call failed.
FailedAfterAppend(r) ==
    /\ hstate[r] = "returned"
    /\ response[r].status = HTTP_STATUS_INTERNAL_ERROR
    /\ error[r].at \in {"count_call", "tier_test", "gen_call"}

\* Every other chat request to the key of r that has arrived had returned
\* before r arrived.
Alone(r) ==
    \A q \in Reqs \ {r} :
        (hstate[q] # "idle" /\ req[q].key = req[r].key) => q \in doneBefore[r]

\* What r did before it failed is in the store: its message is the last one
\* of the history of its key, and the title, if r generated it, is the one
\* r stored.
EffectsKept(r) ==
    /\ LastIs(StoredOrigin(req[r].key), In(r))
    /\ Stored(req[r].key)[Len(Stored(req[r].key))] =
          Message(req[r].role, req[r].content)
    /\ "title" \in calls[r] =>
          (chat_titles[req[r].key] # None /\ titleWriter[req[r].key] = r)

\* C19 as stated: when a chat request that failed after its append returns
\* its HTTP 500, its effects are in the store.
C19_StepAsStated(r) ==
    (hstate[r] = "waiting" /\ FailedAfterAppend(r)') => EffectsKept(r)'

C19_EffectsKept == [][\A r \in Reqs : C19_StepAsStated(r)]_vars

\* C19 amended: the effects of a request that failed after its append are
\* in the store, when it returns and for as long as no other chat request
\* to its key arrives, if no other chat request to the key was in flight
\* with it and delete_chat has removed nothing of the key since it arrived.
\* Without the first condition the message of r is still in the history and
\* a title is still stored if r generated one.  Either condition alone is
\* not enough: an overlapping request can append after r or store its own
\* title, and a DELETE takes the history and the title away.
C19_EffectsKeptAlone ==
    \A r \in Reqs :
        (FailedAfterAppend(r) /\ dels[req[r].key] = epochAt[r]) =>
            /\ Has(StoredOrigin(req[r].key), In(r))
            /\ "title" \in calls[r] => chat_titles[req[r].key] # None
            /\ Alone(r) => EffectsKept(r)

C19_Witness ==
    \E r \in Reqs :
        /\ FailedAfterAppend(r)
        /\ dels[req[r].key] = epochAt[r]
        /\ Alone(r)
        /\ error[r].at = "gen_call"
        /\ "title" \in calls[r]
        /\ EffectsKept(r)

====
